---- MODULE Spec2Model ----
(***************************************************************************)
(* Model of src/app.py (Aadhaar Service Stress Dashboard): the selection   *)
(* resolver (lines 29-52), the district report generate_pdf (89-122) and   *)
(* the bulk report generate_state_summary_pdf (159-182).                   *)
(*                                                                         *)
(* Lengths are kept exact.  reportlab's A4 is (210 mm, 297 mm) with        *)
(* 1 mm = 72/25.4 pt = 360/127 pt, so the page height is 106920/127 pt     *)
(* (841.8897...).  Every length of the model is an integer number of       *)
(* 1/127 pt; Pt(n) is n whole points.  No comparison of the code is        *)
(* within rounding distance of a tie (the nearest is 49.8897 < 50), so     *)
(* the float arithmetic of the code and this arithmetic agree.             *)
(***************************************************************************)
EXTENDS Integers, Sequences, FiniteSets, TLC

VARIABLES
    pc,        \* position of the running operation
    df,        \* generate_state_summary_pdf: its argument, a sequence of rows
    i,         \* index of the row / field the loop is at (1-based)
    y,         \* the cursor y of the running report
    c,         \* the reportlab canvas of the running report
    row,       \* the selected MetricRow (app.py:49-52), argument of generate_pdf
    stamp,     \* generate_pdf: what datetime.now().strftime returned (app.py:94)
    prev,      \* generate_pdf: [row, stamp, doc] of every call that returned
    csv,       \* the rows of the CSV file (app.py:30)
    model_df,  \* the loaded table (app.py:34)
    state,     \* value of the State selectbox (app.py:39)
    district,  \* value of the District selectbox (app.py:44)
    hits       \* the rows the lookup of app.py:49-52 matched

vars == <<pc, df, i, y, c, row, stamp, prev, csv, model_df, state, district, hits>>

-----------------------------------------------------------------------------
(* Bounds of the model *)

MaxEntries == 124
MaxRot == 1
MaxRows == 3

-----------------------------------------------------------------------------
(* Page geometry *)

Scale == 127

Pt(n) == n * Scale

\* height of A4: 297 mm * 360/127 pt/mm, in 1/127 pt
Height == 297 * 360

LeftX == Pt(50)

LineHeight == Pt(18)

BottomMargin == Pt(50)

FirstTop_AtTitle == Height - Pt(50)

\* y = height - 90
FirstTop == Height - Pt(90)

ContTop_SameAsFirst == Height - Pt(90)

\* y = height - 50
ContTop == Height - Pt(50)

StepDown_FieldStep(v) == v - Pt(22)

StepDown(v) == v - LineHeight

PageFull_BelowZero(v) == v < 0

PageFull(v) == v < BottomMargin

-----------------------------------------------------------------------------
(* Number formatting: a text is a sequence of strings *)

DigitChars == <<"0", "1", "2", "3", "4", "5", "6", "7", "8", "9">>

RECURSIVE Digits(_)
Digits(n) == IF n < 10 THEN <<DigitChars[n + 1]>>
             ELSE Digits(n \div 10) \o <<DigitChars[(n % 10) + 1]>>

\* round a value given in thousandths to hundredths, ties to even
RoundHundredths(m) ==
    LET q == m \div 10
        r == m % 10
    IN  IF r < 5 THEN q
        ELSE IF r > 5 THEN q + 1
        ELSE IF q % 2 = 0 THEN q ELSE q + 1

\* f"{v:.2f}" of a value v given in thousandths
Fmt2(m) ==
    LET a == IF m < 0 THEN 0 - m ELSE m
        h == RoundHundredths(a)
        body == Digits(h \div 100) \o <<".">>
                \o <<DigitChars[((h % 100) \div 10) + 1], DigitChars[(h % 10) + 1]>>
    IN  IF m < 0 THEN <<"-">> \o body ELSE body

-----------------------------------------------------------------------------
(* reportlab canvas: the pages shown so far, the operators of the page     *)
(* being built, the current font                                           *)

NewCanvas == [pages |-> <<>>, code |-> <<>>, fontName |-> "Helvetica", fontSize |-> 12]

SetFont(cv, name, size) ==
    [cv EXCEPT !.code = Append(@, [kind |-> "Tf", x |-> 0, y |-> 0, text |-> <<name>>,
                                   font |-> name, size |-> size]),
               !.fontName = name, !.fontSize = size]

DrawString(cv, px, py, txt) ==
    [cv EXCEPT !.code = Append(@, [kind |-> "Tj", x |-> px, y |-> py, text |-> txt,
                                   font |-> cv.fontName, size |-> cv.fontSize])]

OpenCanvas_Reused(old) == old

\* canvas.Canvas(buffer, pagesize=A4): every call builds its own canvas on
\* its own buffer, whatever canvas an earlier call left behind
OpenCanvas(old) == NewCanvas

ShowPage_Discard(cv) ==
    [cv EXCEPT !.code = <<>>, !.fontName = "Helvetica", !.fontSize = 12]

\* showPage: the page goes to the document, the accumulators and the
\* graphics state (font) restart
ShowPage(cv) ==
    [cv EXCEPT !.pages = Append(@, cv.code), !.code = <<>>,
               !.fontName = "Helvetica", !.fontSize = 12]

Save_NoFlush(cv) == cv

Save_AlwaysShowPage(cv) == ShowPage(cv)

\* save: "if there is current data a showPage is executed automatically"
Save(cv) == IF Len(cv.code) > 0 THEN ShowPage(cv) ELSE cv

\* the strings drawn on a page, in drawing order
Drawn(page) == SelectSeq(page, LAMBDA o : o.kind = "Tj")

-----------------------------------------------------------------------------
(* Bulk report: generate_state_summary_pdf *)

BulkTitle == <<"State-wise Aadhaar Service Stress Summary">>

BulkLine(r) == <<r.state, ": Avg Stress Score = ">> \o Fmt2(r.service_stress_score)

StateNames == <<"Bihar", "Goa", "Kerala", "Assam", "Punjab">>

Scores == <<8210, 1050, 7500, 1236, 0 - 4321, 12344, 0>>

\* the n-row argument number rot: names and scores cycle with different periods
SummaryFrame(n, rot) ==
    [k \in 1..n |-> [state |-> StateNames[((k + rot) % Len(StateNames)) + 1],
                     service_stress_score |-> Scores[((k + 2 * rot) % Len(Scores)) + 1]]]

NoRow == [state |-> "", district |-> "", total_enrolments |-> 0,
          total_biometric_updates |-> 0, total_demographic_updates |-> 0,
          service_stress_score |-> 0, stress_category |-> ""]

Init ==
    /\ pc = "call"
    /\ \E n \in 0..MaxEntries, rot \in 0..MaxRot : df = SummaryFrame(n, rot)
    /\ i = 0
    /\ y = 0
    /\ c = NewCanvas
    /\ row = NoRow
    /\ stamp = ""
    /\ prev = {}
    /\ csv = <<>>
    /\ model_df = <<>>
    /\ state = ""
    /\ district = ""
    /\ hits = <<>>

BulkBegin ==
    /\ pc = "call"
    /\ c' = SetFont(DrawString(SetFont(OpenCanvas(c), "Helvetica-Bold", 16),
                               LeftX, Height - Pt(50), BulkTitle),
                    "Helvetica", 10)
    /\ y' = FirstTop
    /\ i' = 1
    /\ pc' = "loop"
    /\ UNCHANGED <<df, row, stamp, prev, csv, model_df, state, district, hits>>

BulkDraw ==
    /\ pc = "loop"
    /\ i <= Len(df)
    /\ c' = DrawString(c, LeftX, y, BulkLine(df[i]))
    /\ y' = StepDown(y)
    /\ pc' = "test"
    /\ UNCHANGED <<df, i, row, stamp, prev, csv, model_df, state, district, hits>>

BulkPageBreak ==
    /\ pc = "test"
    /\ PageFull(y)
    /\ c' = ShowPage(c)
    /\ y' = ContTop
    /\ i' = i + 1
    /\ pc' = "loop"
    /\ UNCHANGED <<df, row, stamp, prev, csv, model_df, state, district, hits>>

BulkNoBreak ==
    /\ pc = "test"
    /\ ~PageFull(y)
    /\ i' = i + 1
    /\ pc' = "loop"
    /\ UNCHANGED <<df, y, c, row, stamp, prev, csv, model_df, state, district, hits>>

BulkSave ==
    /\ pc = "loop"
    /\ i > Len(df)
    /\ c' = Save(c)
    /\ pc' = "done"
    /\ UNCHANGED <<df, i, y, row, stamp, prev, csv, model_df, state, district, hits>>

Next == BulkBegin \/ BulkDraw \/ BulkPageBreak \/ BulkNoBreak \/ BulkSave

Spec == Init /\ [][Next]_vars

-----------------------------------------------------------------------------
(* What the bulk report holds *)

\* the data lines of a page: every string drawn on it but the title
DataLines(page) == SelectSeq(Drawn(page), LAMBDA o : o.text # BulkTitle)

\* the pages shown so far followed by the page being built
PagesSoFar == Append(c.pages, c.code)

RECURSIVE LineTexts(_)
LineTexts(pages) ==
    IF pages = <<>> THEN <<>>
    ELSE LET d == DataLines(Head(pages))
         IN  [k \in 1..Len(d) |-> d[k].text] \o LineTexts(Tail(pages))

InBulk == pc \in {"loop", "test", "done"}

\* number of entries the loop has drawn
DrawnCount == IF pc = "loop" THEN i - 1 ELSE IF pc = "test" THEN i ELSE Len(df)

NonEmptyPages(pages) == {p \in 1..Len(pages) : DataLines(pages[p]) # <<>>}

\* whole points nearest to a length
RoundPt(v) == (v + Scale \div 2) \div Scale

\* lines a page holds when its first line is drawn at top
Capacity(top) == (top - BottomMargin) \div LineHeight + 1

FirstCap == Capacity(FirstTop)

ContCap == Capacity(ContTop)

CeilDiv(a, b) == (a + b - 1) \div b

\* C1: the data lines of the document, concatenated in page order, are the
\* input entries in input order (at every point of the loop: the entries
\* drawn so far; in the saved document: all N of them)
C1_LinesAreEntriesInOrder ==
    InBulk =>
        /\ LineTexts(PagesSoFar) = [k \in 1..DrawnCount |-> BulkLine(df[k])]
        /\ pc = "done" => /\ c.code = <<>>
                          /\ Len(LineTexts(c.pages)) = Len(df)

C1_Witness ==
    /\ pc = "done"
    /\ Len(df) = MaxEntries
    /\ Len(c.pages) >= 3
    /\ LineTexts(c.pages)[1] = <<"Kerala", ": Avg Stress Score = ", "1", ".", "2", "4">>
    /\ LineTexts(c.pages)[2] = <<"Assam", ": Avg Stress Score = ", "-", "4", ".", "3", "2">>

\* C2: no data line is ever drawn below the bottom margin (y >= 50 pt), on
\* the first page and on every continuation page
C2_NoLineBelowBottom ==
    InBulk =>
        \A p \in 1..Len(PagesSoFar) :
            \A k \in 1..Len(DataLines(PagesSoFar[p])) :
                DataLines(PagesSoFar[p])[k].y >= BottomMargin

\* a full first page and a full continuation page, each with its lowest line
\* less than one line height above the margin
C2_Witness ==
    /\ pc = "done"
    /\ Len(c.pages) >= 3
    /\ \A p \in 1..2 :
          LET d == DataLines(c.pages[p])
          IN  d # <<>> /\ d[Len(d)].y < BottomMargin + LineHeight

\* C3 as stated: the number of pages is ceil(N / floor((top_margin -
\* bottom_margin) / line_height)), the margins in whole points (752, 50, 18),
\* for N >= 1
C3_Original_PagesFormula ==
    (pc = "done" /\ Len(df) >= 1) =>
        Len(c.pages) =
            CeilDiv(Len(df), (RoundPt(FirstTop) - RoundPt(BottomMargin)) \div RoundPt(LineHeight))

\* C3 amended: the first page holds floor((height-90-50)/18)+1 = 39 lines and
\* every continuation page floor((height-50-50)/18)+1 = 42; the document has
\* one page when N <= 39 and 1 + ceil((N-39)/42) pages otherwise
C3_PagesByCapacity ==
    /\ InBulk =>
          \A p \in 1..Len(c.pages) :
              LET n == Len(DataLines(c.pages[p]))
                  cap == IF p = 1 THEN FirstCap ELSE ContCap
              IN  IF pc = "done" /\ p = Len(c.pages) THEN n <= cap ELSE n = cap
    /\ pc = "done" =>
          /\ Len(c.pages) = IF Len(df) <= FirstCap THEN 1
                            ELSE 1 + CeilDiv(Len(df) - FirstCap, ContCap)
          /\ FirstCap = 39
          /\ ContCap = 42

C3_Witness ==
    /\ pc = "done"
    /\ Len(df) = FirstCap + ContCap + 1
    /\ Len(c.pages) = 3
    /\ Len(DataLines(c.pages[1])) = 39
    /\ Len(DataLines(c.pages[2])) = 42
    /\ Len(DataLines(c.pages[3])) = 1

\* C4 as stated: the first data line of every page is drawn at the offset of
\* the first data line of the first page
C4_Original_SameTopOnEveryPage ==
    InBulk =>
        \A p \in NonEmptyPages(PagesSoFar) :
            DataLines(PagesSoFar[p])[1].y = DataLines(PagesSoFar[1])[1].y

\* C4 amended: the cursor starts at height-90 (below the title at height-50)
\* on the first page and is reset to height-50 after every page break: the
\* first data line of the first page is at height-90, that of every
\* continuation page at height-50
C4_TopPerPage ==
    /\ (pc = "loop" /\ i = 1) => y = Height - Pt(90)
    /\ InBulk =>
          \A p \in NonEmptyPages(PagesSoFar) :
              DataLines(PagesSoFar[p])[1].y =
                  IF p = 1 THEN Height - Pt(90) ELSE Height - Pt(50)
    /\ (pc = "loop" /\ c.code = <<>>) => y = Height - Pt(50)

C4_Witness ==
    /\ pc = "done"
    /\ Cardinality(NonEmptyPages(c.pages)) = 3
    /\ DataLines(c.pages[2])[1].y = DataLines(c.pages[3])[1].y
    /\ DataLines(c.pages[2])[1].y = DataLines(c.pages[1])[1].y + Pt(40)

\* C5: zero entries give a document of exactly one page with no data line
C5_EmptyInputOnePage ==
    (pc = "done" /\ Len(df) = 0) =>
        /\ Len(c.pages) = 1
        /\ DataLines(c.pages[1]) = <<>>
        /\ Len(Drawn(c.pages[1])) = 1
        /\ c.code = <<>>

C5_Witness ==
    /\ pc = "done"
    /\ Len(df) = 0
    /\ Drawn(c.pages[1])[1].text = BulkTitle

\* C6 as stated: the k-th data line of a page is at top_margin - k *
\* line_height with top_margin = 752 pt and line_height = 18 pt (offsets
\* compared in whole points)
C6_Original_LineOffsets ==
    InBulk =>
        \A p \in 1..Len(PagesSoFar) :
            \A k \in 1..Len(DataLines(PagesSoFar[p])) :
                RoundPt(DataLines(PagesSoFar[p])[k].y) = 752 - (k - 1) * 18

\* C6 amended: the k-th data line (k = 0, 1, ...) of a page is at top - k * 18
\* where top is height-90 on the first page and height-50 on a continuation
\* page, and the cursor is one line height below the last line drawn; two
\* entries give one page with lines at height-90 and height-108 (752 and 734
\* to the nearest point)
C6_LineOffsets ==
    /\ InBulk =>
          \A p \in 1..Len(PagesSoFar) :
              \A k \in 1..Len(DataLines(PagesSoFar[p])) :
                  DataLines(PagesSoFar[p])[k].y =
                      (IF p = 1 THEN Height - Pt(90) ELSE Height - Pt(50)) - (k - 1) * Pt(18)
    /\ (pc = "test" /\ DataLines(c.code) # <<>>) =>
          y = DataLines(c.code)[Len(DataLines(c.code))].y - Pt(18)
    /\ (pc = "done" /\ Len(df) = 2) =>
          /\ Len(c.pages) = 1
          /\ Len(DataLines(c.pages[1])) = 2
          /\ DataLines(c.pages[1])[1].y = Height - Pt(90)
          /\ DataLines(c.pages[1])[2].y = Height - Pt(108)
          /\ RoundPt(DataLines(c.pages[1])[1].y) = 752
          /\ RoundPt(DataLines(c.pages[1])[2].y) = 734

C6_Witness ==
    /\ pc = "done"
    /\ Len(df) = 2
    /\ DataLines(c.pages[1])[1].text = <<"Goa", ": Avg Stress Score = ", "1", ".", "0", "5">>
    /\ DataLines(c.pages[1])[1].x = Pt(50)

\* C10 as stated: a page break happens only when a further entry remains to
\* be emitted, never after the last entry
C10_Original_BreakOnlyBeforeNextLine ==
    [][BulkPageBreak => i' <= Len(df)]_vars

\* C10 amended: the page break follows the line that takes the cursor below
\* the bottom margin, also when that line is the last entry; the page it
\* opens then holds nothing and save() does not emit it, so for N >= 1 every
\* page of the document holds at least one data line
C10_NoEmptyPage ==
    /\ (InBulk /\ Len(df) >= 1) => \A p \in 1..Len(c.pages) : DataLines(c.pages[p]) # <<>>
    /\ (pc = "loop" /\ c.code = <<>>) =>
          LET d == DataLines(c.pages[Len(c.pages)])
          IN  d[Len(d)].y - Pt(18) < Pt(50)
    /\ (pc = "done" /\ Len(df) >= 1) =>
          /\ Len(c.pages) >= 1
          /\ c.code = <<>>

\* the last entry filled the second page exactly: the break was taken after
\* it and the document still ends with that page
C10_Witness ==
    /\ pc = "done"
    /\ Len(df) = FirstCap + ContCap
    /\ Len(c.pages) = 2
    /\ y = ContTop

-----------------------------------------------------------------------------
(* District report: generate_pdf *)

Pad3(n) == <<DigitChars[(n \div 100) + 1], DigitChars[((n % 100) \div 10) + 1],
             DigitChars[(n % 10) + 1]>>

\* f"{n:,}" of a non-negative integer
RECURSIVE Commas(_)
Commas(n) == IF n < 1000 THEN Digits(n)
             ELSE Commas(n \div 1000) \o <<",">> \o Pad3(n % 1000)

PdfTitle == <<"Aadhaar Service Stress Report">>

Fields_ScoreBeforeCounts(r) ==
    << <<"State", <<r.state>> >>,
       <<"District", <<r.district>> >>,
       <<"Service Stress Score", Fmt2(r.service_stress_score)>>,
       <<"Total Enrolments", Commas(r.total_enrolments)>>,
       <<"Biometric Updates", Commas(r.total_biometric_updates)>>,
       <<"Demographic Updates", Commas(r.total_demographic_updates)>>,
       <<"Priority Category", <<r.stress_category>> >> >>

\* the (label, value) pairs of the report, in the order they are drawn
Fields(r) ==
    << <<"State", <<r.state>> >>,
       <<"District", <<r.district>> >>,
       <<"Total Enrolments", Commas(r.total_enrolments)>>,
       <<"Biometric Updates", Commas(r.total_biometric_updates)>>,
       <<"Demographic Updates", Commas(r.total_demographic_updates)>>,
       <<"Service Stress Score", Fmt2(r.service_stress_score)>>,
       <<"Priority Category", <<r.stress_category>> >> >>

\* f"{label}: {value}"
FieldLine(f) == <<f[1], ": ">> \o f[2]

MkRow(s, d, e, b, g, v, cat) ==
    [state |-> s, district |-> d, total_enrolments |-> e,
     total_biometric_updates |-> b, total_demographic_updates |-> g,
     service_stress_score |-> v, stress_category |-> cat]

PdfRows == { MkRow("Bihar", "Patna", 1234567, 999, 1000, 8214, "High"),
             MkRow("Goa", "North Goa", 0, 12, 1000000, 7500, "Low"),
             MkRow("Bihar", "Gaya", 45678, 0, 100, 1050, "Moderate") }

Stamps == {"05-11-2026 10:00", "05-11-2026 10:01"}

InitDistrict ==
    /\ pc = "call"
    /\ df = <<>>
    /\ i = 0
    /\ y = 0
    /\ c = NewCanvas
    /\ row = NoRow
    /\ stamp = ""
    /\ prev = {}
    /\ csv = <<>>
    /\ model_df = <<>>
    /\ state = ""
    /\ district = ""
    /\ hits = <<>>

\* lines 90-113: the canvas, the title, the timestamp line, the cursor
PdfBegin ==
    /\ pc = "call"
    /\ \E r \in PdfRows, t \in Stamps :
          /\ row' = r
          /\ stamp' = t
          /\ c' = SetFont(
                    DrawString(
                      SetFont(
                        DrawString(SetFont(OpenCanvas(c), "Helvetica-Bold", 16),
                                   LeftX, Height - Pt(50), PdfTitle),
                        "Helvetica", 10),
                      LeftX, Height - Pt(80), <<"Generated on: ", t>>),
                    "Helvetica", 12)
    /\ y' = Height - Pt(120)
    /\ i' = 1
    /\ pc' = "fields"
    /\ UNCHANGED <<df, prev, csv, model_df, state, district, hits>>

PdfField ==
    /\ pc = "fields"
    /\ i <= Len(Fields(row))
    /\ c' = DrawString(c, LeftX, y, FieldLine(Fields(row)[i]))
    /\ y' = y - Pt(22)
    /\ i' = i + 1
    /\ UNCHANGED <<pc, df, row, stamp, prev, csv, model_df, state, district, hits>>

PdfShowPage ==
    /\ pc = "fields"
    /\ i > Len(Fields(row))
    /\ c' = ShowPage(c)
    /\ pc' = "save"
    /\ UNCHANGED <<df, i, y, row, stamp, prev, csv, model_df, state, district, hits>>

PdfSave ==
    /\ pc = "save"
    /\ c' = Save(c)
    /\ pc' = "done"
    /\ UNCHANGED <<df, i, y, row, stamp, prev, csv, model_df, state, district, hits>>

\* the buffer is returned; the next run of the script calls generate_pdf again
PdfReturn ==
    /\ pc = "done"
    /\ prev' = prev \cup {[row |-> row, stamp |-> stamp, doc |-> c.pages]}
    /\ pc' = "call"
    /\ UNCHANGED <<df, i, y, c, row, stamp, csv, model_df, state, district, hits>>

NextDistrict == PdfBegin \/ PdfField \/ PdfShowPage \/ PdfSave \/ PdfReturn

SpecDistrict == InitDistrict /\ [][NextDistrict]_vars

PdfLabels == <<"Aadhaar Service Stress Report", "Generated on: ", "State", "District",
               "Total Enrolments", "Biometric Updates", "Demographic Updates",
               "Service Stress Score", "Priority Category">>

\* C7: the district report is one page of nine lines: title, timestamp and
\* the seven fields in their fixed order, each strictly below the one before,
\* and no page is shown before the last field is drawn
C7_OnePageNineLines ==
    /\ pc = "fields" => c.pages = <<>>
    /\ pc \in {"save", "done"} =>
          /\ Len(c.pages) = 1
          /\ c.code = <<>>
          /\ LET d == Drawn(c.pages[1])
             IN  /\ Len(d) = 9
                 /\ \A k \in 1..9 : d[k].text[1] = PdfLabels[k] /\ d[k].y > 0
                 /\ \A k \in 1..8 : d[k + 1].y < d[k].y
                 /\ d[2].text = <<"Generated on: ", stamp>>
                 /\ d[3].text = <<"State", ": ", row.state>>
                 /\ d[4].text = <<"District", ": ", row.district>>
                 /\ d[9].text = <<"Priority Category", ": ", row.stress_category>>

C7_Witness ==
    /\ pc = "done"
    /\ row.district = "Patna"
    /\ Drawn(c.pages[1])[5].text =
          <<"Total Enrolments", ": ", "1", ",", "2", "3", "4", ",", "5", "6", "7">>
    /\ Drawn(c.pages[1])[6].text = <<"Biometric Updates", ": ", "9", "9", "9">>
    /\ Drawn(c.pages[1])[7].text = <<"Demographic Updates", ": ", "1", ",", "0", "0", "0">>
    /\ Drawn(c.pages[1])[8].text = <<"Service Stress Score", ": ", "8", ".", "2", "1">>
    /\ Drawn(c.pages[1])[9].y = Height - Pt(252)

\* C8: a call on a row and a timestamp that an earlier call was made on
\* yields the document that call yielded: same pages, lines, content and
\* positions, whatever calls came in between
C8_SameInputSameDocument ==
    pc = "done" =>
        \A e \in prev : (e.row = row /\ e.stamp = stamp) => e.doc = c.pages

\* a second call on the input of the first, after a call on another input
C8_Witness ==
    /\ pc = "done"
    /\ Cardinality(prev) >= 2
    /\ \E e \in prev : e.row = row /\ e.stamp = stamp /\ e.doc = c.pages
    /\ \E e \in prev : e.row # row /\ e.doc # c.pages

-----------------------------------------------------------------------------
(* Data loading and the selection resolver (lines 29-52).  In this part a  *)
(* state name is the sequence of its characters, so that the filter of     *)
(* load_data reads them.                                                   *)

Letters == {"A", "B", "C", "D", "E", "F", "G", "H", "I", "J", "K", "L", "M",
            "N", "O", "P", "Q", "R", "S", "T", "U", "V", "W", "X", "Y", "Z",
            "a", "b", "c", "d", "e", "f", "g", "h", "i", "j", "k", "l", "m",
            "n", "o", "p", "q", "r", "s", "t", "u", "v", "w", "x", "y", "z"}

\* str.contains(r"[A-Za-z]", regex=True)
HasAlpha(name) == \E k \in 1..Len(name) : name[k] \in Letters

\* the state and district names of the CSV files considered, each list in
\* the order sorted() gives
StateOrder == << <<"1", "0", "0">>, <<"B", "i", "h", "a", "r">>, <<"G", "o", "a">> >>

DistrictOrder == <<"North", "South">>

CsvRows == { MkRow(StateOrder[s], DistrictOrder[d], 100, 10, 1, v, "Low") :
                 s \in 1..Len(StateOrder), d \in 1..Len(DistrictOrder), v \in {1050, 8210} }

RECURSIVE SeqsUpTo(_, _)
SeqsUpTo(S, n) == IF n = 0 THEN {<<>>}
                  ELSE LET shorter == SeqsUpTo(S, n - 1)
                       IN  shorter \cup {Append(q, e) : q \in shorter, e \in S}

\* df[df["state"].str.contains(...)]
LoadFilter(rows) == SelectSeq(rows, LAMBDA r : HasAlpha(r.state))

\* sorted(model_df["state"].unique())
StateOptions(table) ==
    SelectSeq(StateOrder, LAMBDA n : \E k \in 1..Len(table) : table[k].state = n)

DistrictOptions_AnyState(table, s) ==
    SelectSeq(DistrictOrder, LAMBDA n : \E k \in 1..Len(table) : table[k].district = n)

\* sorted(model_df[model_df["state"] == state]["district"].unique())
DistrictOptions(table, s) ==
    SelectSeq(DistrictOrder,
              LAMBDA n : \E k \in 1..Len(table) : table[k].state = s /\ table[k].district = n)

\* model_df[(model_df["state"] == state) & (model_df["district"] == district)]
Lookup(table, s, d) == SelectSeq(table, LAMBDA r : r.state = s /\ r.district = d)

\* what st.selectbox returns: one of its options, or None (here none) when it
\* has no option
Returned(options, none) ==
    IF options = <<>> THEN {none} ELSE {options[k] : k \in 1..Len(options)}

InitSelect ==
    /\ pc = "start"
    /\ csv \in SeqsUpTo(CsvRows, MaxRows)
    /\ df = <<>>
    /\ i = 0
    /\ y = 0
    /\ c = NewCanvas
    /\ row = NoRow
    /\ stamp = ""
    /\ prev = {}
    /\ model_df = <<>>
    /\ state = <<>>
    /\ district = ""
    /\ hits = <<>>

\* lines 29-34
Load ==
    /\ pc = "start"
    /\ model_df' = LoadFilter(csv)
    /\ pc' = "ready"
    /\ UNCHANGED <<df, i, y, c, row, stamp, prev, csv, state, district, hits>>

\* one run of the script over lines 39-52 with the choices the two
\* selectboxes hand back: each returns one of the options it was given; .iloc[0]
\* takes the first row matched and raises IndexError when none is
Rerun ==
    /\ pc \in {"ready", "shown"}
    /\ model_df # <<>>
    /\ \E s \in Returned(StateOptions(model_df), <<>>) :
          \E d \in Returned(DistrictOptions(model_df, s), "") :
              LET m == Lookup(model_df, s, d)
              IN  /\ state' = s
                  /\ district' = d
                  /\ hits' = m
                  /\ IF m = <<>>
                     THEN pc' = "error" /\ row' = row
                     ELSE pc' = "shown" /\ row' = m[1]
    /\ UNCHANGED <<df, i, y, c, stamp, prev, csv, model_df>>

\* an empty table: both selectboxes have no option and return None, the
\* lookup matches nothing and .iloc[0] raises IndexError
RerunNoRows ==
    /\ pc = "ready"
    /\ model_df = <<>>
    /\ hits' = <<>>
    /\ pc' = "error"
    /\ UNCHANGED <<df, i, y, c, row, stamp, prev, csv, model_df, state, district>>

NextSelect == Load \/ Rerun \/ RerunNoRows

SpecSelect == InitSelect /\ [][NextSelect]_vars

PairsUnique(table) ==
    \A a, b \in 1..Len(table) :
        (table[a].state = table[b].state /\ table[a].district = table[b].district) => a = b

\* C9: with at least one row loaded, whatever the choices made through the
\* two selection controls, the lookup matches at least one row, the row
\* returned is a row of the table carrying the chosen state and district,
\* and it is the only match when (state, district) pairs are unique
C9_SelectionResolves ==
    /\ pc = "error" => model_df = <<>>
    /\ pc = "shown" =>
          /\ Len(hits) >= 1
          /\ row.state = state
          /\ row.district = district
          /\ \E k \in 1..Len(model_df) : model_df[k] = row
          /\ PairsUnique(model_df) => Len(hits) = 1

\* a table of two states that lost a row to the filter of load_data; the
\* district chosen exists in the chosen state only
C9_Witness ==
    /\ pc = "shown"
    /\ Len(csv) = 3
    /\ Len(model_df) = 2
    /\ PairsUnique(model_df)
    /\ model_df[1].state # model_df[2].state
    /\ state = model_df[2].state
    /\ district = "South"
    /\ model_df[1].district = "North"
    /\ row = model_df[2]

====
